---------------------------- MODULE Spec2Model ----------------------------
(***************************************************************************)
(* State-machine model of grep.py (main, grep_file, iter_files,            *)
(* is_probably_text_file) and of phase3.py's process_file.                 *)
(*                                                                         *)
(* A line is a tuple of one-character strings; a file's content is the     *)
(* tuple of its raw physical lines (each but possibly the last ending in   *)
(* "\n"); the positions of its NUL bytes are kept as a set of offsets.     *)
(* A regular expression is a literal text; "(" makes it uncompilable.      *)
(* Colour handling is presentation only and is left out.                   *)
(***************************************************************************)
EXTENDS Integers, Sequences, FiniteSets, TLC

(* ---------------------------- bounds ----------------------------------- *)
MaxLines == 2

(* ------------------------- program constants --------------------------- *)
SampleSize == 4096

(* --------------------------- file system ------------------------------- *)
Paths == {"f1", "d", "d/f2", "d/s", "d/s/f3", "nope"}

Kind(p) ==
    CASE p \in {"f1", "d/f2", "d/s/f3"} -> "file"
      [] p \in {"d", "d/s"}             -> "dir"
      [] OTHER                          -> "none"

Children(p) ==
    CASE p = "d"   -> <<"d/f2", "d/s">>
      [] p = "d/s" -> <<"d/s/f3">>
      [] OTHER     -> <<>>

Exists(p) == Kind(p) # "none"

IsFile(p) == Kind(p) = "file"

IsDir(p) == Kind(p) = "dir"

RawLines == { <<"a", "\n">>, <<"A", "b">> }

EndsWithNewline(raw) == Len(raw) > 0 /\ raw[Len(raw)] = "\n"

Contents ==
    { c \in UNION { [1..n -> RawLines] : n \in 0..MaxLines } :
        \A i \in 1..(Len(c) - 1) : EndsWithNewline(c[i]) }

NulSets == { {}, {0}, {SampleSize - 1}, {SampleSize}, {0, SampleSize} }

(* --------------------------- command line ------------------------------ *)
Regexes == { <<"a">>, <<"(">> }

InputLists ==
    { <<"f1">>, <<"d">>, <<"nope">>, <<"nope", "f1">>, <<"d", "nope">>,
      <<"f1", "f1">> }

BadArgs ==
    [ok |-> FALSE, regex |-> <<>>, inputs |-> <<>>, recursive |-> FALSE,
     ignore_case |-> FALSE, invert |-> FALSE, count |-> FALSE]

GoodArgs ==
    [ok : {TRUE}, regex : Regexes, inputs : InputLists, recursive : BOOLEAN,
     ignore_case : BOOLEAN, invert : BOOLEAN, count : BOOLEAN]

(* ------------------------- pure helpers -------------------------------- *)
Range(s) == { s[i] : i \in 1..Len(s) }

ReValid(regex) == "(" \notin Range(regex)

Lower(c) == IF c = "A" THEN "a" ELSE IF c = "B" THEN "b" ELSE c

Fold(c, ic) == IF ic THEN Lower(c) ELSE c

RxSearch(rx, line) ==
    \E i \in 0..(Len(line) - Len(rx.pat)) :
        \A j \in 1..Len(rx.pat) :
            Fold(line[i + j], rx.ic) = Fold(rx.pat[j], rx.ic)

RECURSIVE Rstrip(_)
Rstrip(raw) ==
    IF Len(raw) > 0 /\ raw[Len(raw)] = "\n"
    THEN Rstrip(SubSeq(raw, 1, Len(raw) - 1))
    ELSE raw

IsProbablyTextFileWholeFile(nuls, openOk, sample_size) ==
    openOk /\ nuls = {}

IsProbablyTextFile(nuls, openOk, sample_size) ==
    openOk /\ ~(\E n \in nuls : n < sample_size)

LineOkNoInvert(matched, invert) == matched

LineOk(matched, invert) == IF invert THEN ~matched ELSE matched

Interesting(rx, invert, raw) == LineOk(RxSearch(rx, Rstrip(raw)), invert)

CountStepAlways(match_count, ok) == match_count + 1

CountStep(match_count, ok) == IF ok THEN match_count + 1 ELSE match_count

EmitCountIfPositive(count_only, match_count) == count_only /\ match_count > 0

EmitCount(count_only, match_count) == count_only

MissingFirstOnly(inputs) ==
    SelectSeq(SubSeq(inputs, 1, 1), LAMBDA p : ~Exists(p))

Missing(inputs) == SelectSeq(inputs, LAMBDA p : ~Exists(p))

RECURSIVE RGlob(_)
RGlob(p) ==
    LET RECURSIVE Walk(_)
        Walk(cs) ==
            IF cs = <<>> THEN <<>>
            ELSE <<Head(cs)>> \o (IF IsDir(Head(cs)) THEN RGlob(Head(cs)) ELSE <<>>)
                 \o Walk(Tail(cs))
    IN  Walk(Children(p))

Glob(p) == Children(p)

RECURSIVE IterFiles(_, _)
IterFiles(inputs, recursive) ==
    IF inputs = <<>> THEN <<>>
    ELSE LET p == Head(inputs)
             here == IF IsFile(p) THEN <<p>>
                     ELSE IF IsDir(p)
                          THEN SelectSeq(IF recursive THEN RGlob(p) ELSE Glob(p), IsFile)
                          ELSE <<>>
         IN  here \o IterFiles(Tail(inputs), recursive)

LineRec(path, lineno, text) ==
    [kind |-> "line", path |-> path, n |-> lineno, text |-> text]

CountRec(path, count) ==
    [kind |-> "count", path |-> path, n |-> count, text |-> <<>>]

Err(kind, path) == [kind |-> kind, path |-> path]

RECURSIVE ErrSeq(_, _)
ErrSeq(kind, paths) ==
    IF paths = <<>> THEN <<>>
    ELSE <<Err(kind, Head(paths))>> \o ErrSeq(kind, Tail(paths))

FilesReadAfterOpenEager(files_read, opened) == files_read + 1

FilesReadAfterOpen(files_read, opened) ==
    IF opened THEN files_read + 1 ELSE files_read

ReportPerfNever(log, st) == log

ReportPerf(log, st) == Append(log, st)

InterruptedRetZero == "ret0"

InterruptedRet == "ret130"

ExitCode(e) ==
    CASE e = "ret0"     -> 0
      [] e = "ret2"     -> 2
      [] e = "sysexit2" -> 2
      [] e = "ret130"   -> 130
      [] e = "exc"      -> 1
      [] e = "kbd"      -> 130   \* uncaught KeyboardInterrupt: killed by SIGINT
      [] OTHER          -> -1

(* grep.py grep_file as a function: the stdout of one file read to its end *)
RECURSIVE GrepLines(_, _, _, _, _, _, _)
GrepLines(filepath, rx, invert, count_only, content, lineno, match_count) ==
    IF lineno > Len(content) THEN [out |-> <<>>, count |-> match_count]
    ELSE LET line == Rstrip(content[lineno])
             ok   == Interesting(rx, invert, content[lineno])
             rest == GrepLines(filepath, rx, invert, count_only, content, lineno + 1,
                               IF count_only THEN CountStep(match_count, ok)
                               ELSE match_count)
         IN  [out   |-> (IF ok /\ ~count_only
                         THEN <<LineRec(filepath, lineno, line)>> ELSE <<>>) \o rest.out,
              count |-> rest.count]

GrepFile(filepath, rx, invert, count_only, content) ==
    LET r == GrepLines(filepath, rx, invert, count_only, content, 1, 0)
    IN  r.out \o (IF EmitCount(count_only, r.count)
                  THEN <<CountRec(filepath, r.count)>> ELSE <<>>)

(* phase3.py process_file: the stdout of one file read to its end *)
RECURSIVE ProcessLines(_, _, _, _, _, _)
ProcessLines(rx, filepath, invert, do_count, content, lineno) ==
    IF lineno > Len(content) THEN [out |-> <<>>, count |-> 0]
    ELSE LET text    == Rstrip(content[lineno])
             matched == RxSearch(rx, text)
             ok      == LineOk(matched, invert)
             rest    == ProcessLines(rx, filepath, invert, do_count, content, lineno + 1)
         IN  [out   |-> (IF ok /\ ~do_count
                         THEN <<LineRec(filepath, lineno, text)>> ELSE <<>>) \o rest.out,
              count |-> (IF ok /\ do_count THEN 1 ELSE 0) + rest.count]

ProcessFile(rx, filepath, invert, do_count, content) ==
    LET r == ProcessLines(rx, filepath, invert, do_count, content, 1)
    IN  r.out \o (IF do_count THEN <<CountRec(filepath, r.count)>> ELSE <<>>)

(* ------------------------------ state ---------------------------------- *)
VARIABLES
    args,      \* parsed command line (argparse namespace), fixed for the run
    pc,        \* control position in main / grep_file
    stats,     \* the Stats dataclass instance
    rx,        \* compiled pattern
    todo,      \* files the iter_files generator has still to yield
    cur,       \* grep_file's locals for the file being scanned
    stdout,    \* lines printed to standard output
    stderr,    \* lines shown on standard error (console handler and print)
    perfLog,   \* "Performance:" lines written to the log, each a Stats snapshot
    pending,   \* how the try statement is being left while finally runs
    exit,      \* how the process ended
    entry,     \* history: stats and stdout length when grep_file was entered
    trail,     \* history: one record per finished grep_file call
    ints,      \* history: control positions at which Ctrl+C arrived
    excAt      \* history: control position at which an unexpected exception arose

vars == <<args, pc, stats, rx, todo, cur, stdout, stderr, perfLog, pending,
          exit, entry, trail, ints, excAt>>

Stats0 ==
    [files_seen |-> 0, files_read |-> 0, files_skipped_binary |-> 0,
     lines_seen |-> 0, lines_reported |-> 0, elapsed_s |-> "0.0"]

NoFile ==
    [path |-> "", nuls |-> {}, cls_open |-> FALSE, content |-> <<>>,
     lineno |-> 0, match_count |-> 0, how |-> "none"]

SetupPcs == {"parse", "setup"}

TryPcs == {"compile", "validate", "iterate", "gf_classify", "gf_open",
           "gf_line", "gf_ret"}

FinPcs == {"fin_stamp", "fin_report", "fin_msg"}

Init ==
    /\ args \in GoodArgs \cup {BadArgs}
    /\ pc = "parse"
    /\ stats = Stats0
    /\ rx = [pat |-> <<>>, ic |-> FALSE]
    /\ todo = <<>>
    /\ cur = NoFile
    /\ stdout = <<>>
    /\ stderr = <<>>
    /\ perfLog = <<>>
    /\ pending = "none"
    /\ exit = "none"
    /\ entry = [stats |-> Stats0, out |-> 0, err |-> 0]
    /\ trail = <<>>
    /\ ints = <<>>
    /\ excAt = "none"

(* ------------------------------ main ----------------------------------- *)
\* parser.parse_args(): a usage error prints usage and raises SystemExit(2)
ParseArgs ==
    /\ pc = "parse"
    /\ IF args.ok
       THEN /\ pc' = "setup"
            /\ UNCHANGED <<stderr, exit>>
       ELSE /\ pc' = "exited"
            /\ exit' = "sysexit2"
            /\ stderr' = Append(stderr, Err("usage", ""))
    /\ UNCHANGED <<args, stats, rx, todo, cur, stdout, perfLog, pending,
                   entry, trail, ints, excAt>>

\* setup_logging, colour mode, run-config logging, Stats(), t0
Setup ==
    /\ pc = "setup"
    /\ pc' = "compile"
    /\ stats' = Stats0
    /\ UNCHANGED <<args, rx, todo, cur, stdout, stderr, perfLog, pending,
                   exit, entry, trail, ints, excAt>>

\* re.compile inside the inner try; re.error -> return 2
Compile ==
    /\ pc = "compile"
    /\ IF ReValid(args.regex)
       THEN /\ rx' = [pat |-> args.regex, ic |-> args.ignore_case]
            /\ pc' = "validate"
            /\ UNCHANGED <<stderr, pending>>
       ELSE /\ stderr' = stderr \o <<Err("invalid_regex", ""), Err("invalid_regex_msg", "")>>
            /\ pending' = "ret2"
            /\ pc' = "fin_stamp"
            /\ UNCHANGED rx
    /\ UNCHANGED <<args, stats, todo, cur, stdout, perfLog, exit, entry,
                   trail, ints, excAt>>

\* missing-input check; otherwise the for loop obtains the iter_files generator
Validate ==
    /\ pc = "validate"
    /\ LET missing == Missing(args.inputs)
       IN  IF missing # <<>>
           THEN /\ stderr' = stderr \o ErrSeq("path_not_found", missing)
                                    \o <<Err("not_found_summary", "")>>
                /\ pending' = "ret2"
                /\ pc' = "fin_stamp"
                /\ UNCHANGED todo
           ELSE /\ todo' = IterFiles(args.inputs, args.recursive)
                /\ pc' = "iterate"
                /\ UNCHANGED <<stderr, pending>>
    /\ UNCHANGED <<args, stats, rx, cur, stdout, perfLog, exit, entry,
                   trail, ints, excAt>>

\* for fp in iter_files(...): grep_file(fp, ...) up to stats.files_seen += 1;
\* generator exhausted -> return 0
NextFile ==
    /\ pc = "iterate"
    /\ IF todo = <<>>
       THEN /\ pending' = "ret0"
            /\ pc' = "fin_stamp"
            /\ UNCHANGED <<todo, cur, stats, entry>>
       ELSE /\ cur' = [NoFile EXCEPT !.path = Head(todo)]
            /\ todo' = Tail(todo)
            /\ entry' = [stats |-> stats, out |-> Len(stdout), err |-> Len(stderr)]
            /\ stats' = [stats EXCEPT !.files_seen = @ + 1]
            /\ pc' = "gf_classify"
            /\ UNCHANGED pending
    /\ UNCHANGED <<args, rx, stdout, stderr, perfLog, exit, trail, ints, excAt>>

(* ---------------------------- grep_file -------------------------------- *)
Done(how, nlines) ==
    /\ pc' = "gf_ret"
    /\ trail' = Append(trail, [path |-> cur.path, how |-> how, nlines |-> nlines])

\* is_probably_text_file(filepath); binary or unreadable -> skipped, return
GrepFileClassify ==
    /\ pc = "gf_classify"
    /\ \E nuls \in NulSets, openOk \in BOOLEAN :
          IF ~IsProbablyTextFile(nuls, openOk, SampleSize)
          THEN /\ stats' = [stats EXCEPT !.files_skipped_binary = @ + 1]
               /\ cur' = [cur EXCEPT !.nuls = nuls, !.cls_open = openOk,
                                     !.how = "binary"]
               /\ Done("binary", 0)
          ELSE /\ cur' = [cur EXCEPT !.nuls = nuls, !.cls_open = openOk]
               /\ pc' = "gf_open"
               /\ UNCHANGED <<stats, trail>>
    /\ UNCHANGED <<args, rx, todo, stdout, stderr, perfLog, pending, exit,
                   entry, ints, excAt>>

\* filepath.open(...): OSError -> logger.error; else files_read += 1, match_count = 0
GrepFileOpen ==
    /\ pc = "gf_open"
    /\ \/ /\ stderr' = Append(stderr, Err("cannot_read", cur.path))
          /\ stats' = [stats EXCEPT !.files_read = FilesReadAfterOpen(@, FALSE)]
          /\ cur' = [cur EXCEPT !.how = "openfail"]
          /\ Done("openfail", 0)
       \/ \E content \in Contents :
            /\ stats' = [stats EXCEPT !.files_read = FilesReadAfterOpen(@, TRUE)]
            /\ cur' = [cur EXCEPT !.content = content, !.lineno = 0,
                                  !.match_count = 0]
            /\ pc' = "gf_line"
            /\ UNCHANGED <<stderr, trail>>
    /\ UNCHANGED <<args, rx, todo, stdout, perfLog, pending, exit, entry,
                   ints, excAt>>

\* one iteration of "for lineno, raw in enumerate(f, start=1)"
GrepFileLine ==
    /\ pc = "gf_line"
    /\ cur.lineno < Len(cur.content)
    /\ LET lineno == cur.lineno + 1
           raw    == cur.content[lineno]
           line   == Rstrip(raw)
           ok     == Interesting(rx, args.invert, raw)
       IN  /\ cur' = [cur EXCEPT !.lineno = lineno,
                                 !.match_count = IF args.count
                                                 THEN CountStep(@, ok) ELSE @]
           /\ IF ok /\ ~args.count
              THEN /\ stdout' = Append(stdout, LineRec(cur.path, lineno, line))
                   /\ stats' = [stats EXCEPT !.lines_seen = @ + 1,
                                             !.lines_reported = @ + 1]
              ELSE /\ stats' = [stats EXCEPT !.lines_seen = @ + 1]
                   /\ UNCHANGED stdout
    /\ UNCHANGED <<args, pc, rx, todo, stderr, perfLog, pending, exit, entry,
                   trail, ints, excAt>>

\* end of file: leave the loop, print the count line in count mode, return
GrepFileEof ==
    /\ pc = "gf_line"
    /\ cur.lineno = Len(cur.content)
    /\ IF EmitCount(args.count, cur.match_count)
       THEN /\ stdout' = Append(stdout, CountRec(cur.path, cur.match_count))
            /\ stats' = [stats EXCEPT !.lines_reported = @ + 1]
       ELSE UNCHANGED <<stdout, stats>>
    /\ cur' = [cur EXCEPT !.how = "eof"]
    /\ Done("eof", Len(cur.content))
    /\ UNCHANGED <<args, rx, todo, stderr, perfLog, pending, exit, entry,
                   ints, excAt>>

\* an OSError raised inside the with block (reading the next line):
\* except OSError -> logger.error, return
GrepFileReadError ==
    /\ pc = "gf_line"
    /\ stderr' = Append(stderr, Err("cannot_read", cur.path))
    /\ cur' = [cur EXCEPT !.how = "readerr"]
    /\ Done("readerr", Len(cur.content))
    /\ UNCHANGED <<args, stats, rx, todo, stdout, perfLog, pending, exit,
                   entry, ints, excAt>>

\* grep_file has returned; back to the for loop in main
GrepFileReturn ==
    /\ pc = "gf_ret"
    /\ pc' = "iterate"
    /\ UNCHANGED <<args, stats, rx, todo, cur, stdout, stderr, perfLog,
                   pending, exit, entry, trail, ints, excAt>>

(* --------------------- except / finally / signals ---------------------- *)
\* Ctrl+C: KeyboardInterrupt raised at the current control position
Interrupt ==
    /\ pc # "exited"
    /\ ints' = Append(ints, pc)
    /\ CASE pc \in SetupPcs ->
               /\ pc' = "exited"
               /\ exit' = "kbd"
               /\ UNCHANGED pending
         [] pc \in TryPcs ->
               /\ pc' = "handler"
               /\ UNCHANGED <<pending, exit>>
         [] pc = "handler" ->
               /\ pc' = "fin_stamp"
               /\ pending' = "kbd"
               /\ UNCHANGED exit
         [] OTHER ->
               /\ pc' = "exited"
               /\ exit' = "kbd"
               /\ UNCHANGED pending
    /\ UNCHANGED <<args, stats, rx, todo, cur, stdout, stderr, perfLog,
                   entry, trail, excAt>>

\* an exception main does not handle (neither OSError in grep_file,
\* re.error nor KeyboardInterrupt)
InternalError ==
    /\ pc \in {"setup"} \cup TryPcs
    /\ excAt = "none"
    /\ excAt' = pc
    /\ IF pc = "setup"
       THEN /\ pc' = "exited"
            /\ exit' = "exc"
            /\ UNCHANGED pending
       ELSE /\ pc' = "fin_stamp"
            /\ pending' = "exc"
            /\ UNCHANGED exit
    /\ UNCHANGED <<args, stats, rx, todo, cur, stdout, stderr, perfLog,
                   entry, trail, ints>>

\* except KeyboardInterrupt: warn, print "Interrupted.", return 130
Handler ==
    /\ pc = "handler"
    /\ stderr' = stderr \o <<Err("interrupted_warning", ""), Err("interrupted", "")>>
    /\ pending' = InterruptedRet
    /\ pc' = "fin_stamp"
    /\ UNCHANGED <<args, stats, rx, todo, cur, stdout, perfLog, exit, entry,
                   trail, ints, excAt>>

\* finally: stats.elapsed_s = time.perf_counter() - t0
FinStamp ==
    /\ pc = "fin_stamp"
    /\ stats' = [stats EXCEPT !.elapsed_s = "t1-t0"]
    /\ pc' = "fin_report"
    /\ UNCHANGED <<args, rx, todo, cur, stdout, stderr, perfLog, pending,
                   exit, entry, trail, ints, excAt>>

\* finally: logger.info("Performance: ...")
FinReport ==
    /\ pc = "fin_report"
    /\ perfLog' = ReportPerf(perfLog, stats)
    /\ pc' = "fin_msg"
    /\ UNCHANGED <<args, stats, rx, todo, cur, stdout, stderr, pending,
                   exit, entry, trail, ints, excAt>>

\* finally: print "Log written to: ..."; then the pending return or raise
FinMsg ==
    /\ pc = "fin_msg"
    /\ stderr' = Append(stderr, Err("log_written", ""))
    /\ pc' = "exited"
    /\ exit' = pending
    /\ UNCHANGED <<args, stats, rx, todo, cur, stdout, perfLog, pending,
                   entry, trail, ints, excAt>>

Next ==
    \/ ParseArgs
    \/ Setup
    \/ Compile
    \/ Validate
    \/ NextFile
    \/ GrepFileClassify
    \/ GrepFileOpen
    \/ GrepFileLine
    \/ GrepFileEof
    \/ GrepFileReadError
    \/ GrepFileReturn
    \/ Interrupt
    \/ InternalError
    \/ Handler
    \/ FinStamp
    \/ FinReport
    \/ FinMsg

Spec == Init /\ [][Next]_vars

(* ----------------------- vocabulary of the claims ---------------------- *)
Exited == pc = "exited"

Undisturbed == ints = <<>> /\ excAt = "none"

Stamped == stats.elapsed_s = "t1-t0"

CurOut == SubSeq(stdout, entry.out + 1, Len(stdout))

Linenos(out) == { out[i].n : i \in { j \in DOMAIN out : out[j].kind = "line" } }

TrailCount(hows) == Cardinality({ i \in DOMAIN trail : trail[i].how \in hows })

RECURSIVE TrailLines(_, _)
TrailLines(i, hows) ==
    IF i > Len(trail) THEN 0
    ELSE (IF trail[i].how \in hows THEN trail[i].nlines ELSE 0) + TrailLines(i + 1, hows)

MissingInputs == { p \in Range(args.inputs) : Kind(p) = "none" }

NotFoundNamed ==
    { stderr[i].path : i \in { j \in DOMAIN stderr : stderr[j].kind = "path_not_found" } }

NulInSample(nuls) == \E n \in nuls : n < SampleSize

(* C1: at the end of a run, files_seen = files_read + files_skipped_binary
   + the number of files whose open or read raised an OSError in grep_file.
   Stated here for the runs that return 0. *)
C1_Claim ==
    (Exited /\ exit = "ret0") =>
        stats.files_seen = stats.files_read + stats.files_skipped_binary
                           + TrailCount({"openfail", "readerr"})

(* C2 as claimed: on every exit path, usage error included, the elapsed time
   is stamped and the Performance report is emitted exactly once. Stated here
   for the runs in which no interrupt and no unexpected exception occurs. *)
C2_Original ==
    (Exited /\ Undisturbed) => (Stamped /\ Len(perfLog) = 1)

(* C2 amended: the Performance report is never emitted twice; every exit that
   leaves the try block and completes the finally block (return 0, return 2
   for an invalid pattern or a missing input, return 130, or an unexpected
   exception raised inside the try) has stamped the elapsed time and emitted
   exactly one report that carries the final counters; a usage error exits
   from parse_args with status 2 and no report. *)
C2_Amended ==
    /\ Len(perfLog) <= 1
    /\ (Exited /\ (exit \in {"ret0", "ret2", "ret130"}
                    \/ (exit = "exc" /\ excAt \in TryPcs)))
          => (Stamped /\ perfLog = <<stats>>)
    /\ (Exited /\ exit = "sysexit2")
          => (~args.ok /\ perfLog = <<>> /\ ~Stamped /\ ExitCode(exit) = 2)

C2_Witness ==
    Exited /\ exit = "ret2" /\ ~ReValid(args.regex) /\ perfLog = <<stats>> /\ Stamped

(* C3: invert law. For a file read to its end in Lines mode, the line numbers
   grep_file reports under this run's policy and those it reports under the
   opposite policy are disjoint and together are exactly 1..N; the same
   holds of phase3's process_file. *)
C3_InvertLaw ==
    (pc = "gf_ret" /\ cur.how = "eof" /\ ~args.count) =>
        LET N     == Len(cur.content)
            mine  == Linenos(CurOut)
            same  == Linenos(GrepFile(cur.path, rx, args.invert, FALSE, cur.content))
            other == Linenos(GrepFile(cur.path, rx, ~args.invert, FALSE, cur.content))
            p3n   == Linenos(ProcessFile(rx, cur.path, FALSE, FALSE, cur.content))
            p3i   == Linenos(ProcessFile(rx, cur.path, TRUE, FALSE, cur.content))
        IN  /\ mine = same
            /\ mine \cap other = {}
            /\ mine \cup other = 1..N
            /\ p3n \cap p3i = {}
            /\ p3n \cup p3i = 1..N

C3_Witness ==
    /\ pc = "gf_ret" /\ cur.how = "eof" /\ ~args.count /\ args.invert
    /\ Len(cur.content) = 2
    /\ Linenos(CurOut) = {2}

(* C4: count law. For a file read to its end, the number on the path:count
   line of a count-mode scan equals the number of path:lineno:content lines
   the Lines-mode scan of the same file, pattern and policy emits; the same
   holds of phase3's process_file. *)
C4_CountLaw ==
    (pc = "gf_ret" /\ cur.how = "eof") =>
        LET asLines == GrepFile(cur.path, rx, args.invert, FALSE, cur.content)
            asCount == GrepFile(cur.path, rx, args.invert, TRUE, cur.content)
            p3Lines == ProcessFile(rx, cur.path, args.invert, FALSE, cur.content)
            p3Count == ProcessFile(rx, cur.path, args.invert, TRUE, cur.content)
        IN  /\ args.count  => CurOut = <<CountRec(cur.path, Len(asLines))>>
            /\ ~args.count => asCount = <<CountRec(cur.path, Len(CurOut))>>
            /\ p3Count = <<CountRec(cur.path, Len(p3Lines))>>

C4_Witness ==
    /\ pc = "gf_ret" /\ cur.how = "eof" /\ args.count
    /\ Len(cur.content) = 2
    /\ CurOut = <<CountRec(cur.path, 1)>>

(* C5: binary exclusion. A file with a NUL byte among its first 4096 bytes is
   never opened for line reading and emits nothing; grep_file returns with
   files_skipped_binary one higher and files_read, lines_seen, lines_reported
   unchanged. A readable file whose NUL bytes all lie at offset 4096 or
   beyond is not skipped as binary. *)
C5_BinaryExclusion ==
    /\ pc \in {"gf_open", "gf_line"} => ~NulInSample(cur.nuls)
    /\ (pc = "gf_ret" /\ NulInSample(cur.nuls)) =>
          /\ cur.how = "binary"
          /\ stats.files_skipped_binary = entry.stats.files_skipped_binary + 1
          /\ stats.files_read = entry.stats.files_read
          /\ stats.lines_seen = entry.stats.lines_seen
          /\ stats.lines_reported = entry.stats.lines_reported
          /\ Len(stdout) = entry.out
    /\ (pc = "gf_ret" /\ cur.cls_open /\ cur.nuls # {} /\ ~NulInSample(cur.nuls)) =>
          /\ cur.how # "binary"
          /\ stats.files_skipped_binary = entry.stats.files_skipped_binary

C5_Witness ==
    pc = "gf_ret" /\ cur.how = "binary" /\ cur.nuls = {SampleSize - 1} /\ cur.cls_open

(* C6 as claimed: whenever an input path is missing, main returns 2 with no
   stdout and zero counters, and stderr names each missing path. *)
C6_Original ==
    (Exited /\ Undisturbed /\ args.ok /\ MissingInputs # {}) =>
        /\ exit = "ret2"
        /\ stdout = <<>>
        /\ stats.files_seen = 0 /\ stats.files_read = 0 /\ stats.lines_seen = 0
        /\ NotFoundNamed = MissingInputs

(* C6 amended: with a missing input nothing is ever scanned or printed to
   stdout and the counters stay 0; the run ends with status 2; and, when the
   pattern compiles, stderr names each missing path (an invalid pattern is
   reported first and alone). *)
C6_Amended ==
    /\ MissingInputs # {} =>
          /\ stdout = <<>>
          /\ stats.files_seen = 0 /\ stats.files_read = 0 /\ stats.lines_seen = 0
          /\ pc \notin {"iterate", "gf_classify", "gf_open", "gf_line", "gf_ret"}
    /\ (Exited /\ Undisturbed /\ args.ok /\ MissingInputs # {}) =>
          /\ exit = "ret2"
          /\ ReValid(args.regex) => NotFoundNamed = MissingInputs
          /\ ~ReValid(args.regex) => NotFoundNamed = {}

C6_Witness ==
    /\ Exited /\ exit = "ret2" /\ args.inputs = <<"nope", "f1">>
    /\ NotFoundNamed = {"nope"} /\ stdout = <<>>

(* C7 as claimed: one Ctrl+C at any point of the run, argument and logging
   setup included, ends the process with status 130 with the stats stamped
   and reported. *)
C7_Original ==
    (Exited /\ Len(ints) = 1 /\ ints[1] \in SetupPcs \cup TryPcs) =>
        (ExitCode(exit) = 130 /\ Stamped /\ Len(perfLog) = 1)

(* C7 amended: a Ctrl+C that arrives inside the try block (pattern
   compilation, input validation, traversal, a file scan), and is not
   followed by another, makes main return 130 with the stats stamped and
   reported once; a Ctrl+C during argument parsing or logging setup is not
   caught by main and leaves no stats report. *)
C7_Amended ==
    /\ (Exited /\ Len(ints) = 1 /\ ints[1] \in TryPcs) =>
          (exit = "ret130" /\ ExitCode(exit) = 130 /\ Stamped /\ perfLog = <<stats>>)
    /\ (Exited /\ Len(ints) >= 1 /\ ints[1] \in SetupPcs) =>
          (exit = "kbd" /\ perfLog = <<>> /\ ~Stamped)

C7_Witness ==
    Exited /\ ints = <<"gf_line">> /\ exit = "ret130" /\ perfLog = <<stats>>

(* C8: after a run that returns 0, lines_seen is the sum of the physical
   line counts of the files counted in files_read. *)
C8_Claim ==
    (Exited /\ exit = "ret0") =>
        /\ stats.files_read = TrailCount({"eof", "readerr"})
        /\ stats.lines_seen = TrailLines(1, {"eof", "readerr"})

(* C9: per-file failure isolation. When the open of a file classified as
   text fails, grep_file returns having reported "cannot read" for that file
   once, with files_read, the line counters and stdout unchanged; and an
   undisturbed run over existing inputs with a valid pattern calls grep_file
   on every file of iter_files, in order, and returns 0. *)
C9_Isolation ==
    /\ (pc = "gf_ret" /\ cur.how = "openfail") =>
          /\ stats = [entry.stats EXCEPT !.files_seen = @ + 1]
          /\ Len(stdout) = entry.out
          /\ stderr = SubSeq(stderr, 1, entry.err) \o <<Err("cannot_read", cur.path)>>
    /\ (Exited /\ Undisturbed /\ args.ok /\ ReValid(args.regex) /\ MissingInputs = {}) =>
          /\ exit = "ret0"
          /\ [i \in 1..Len(trail) |-> trail[i].path] = IterFiles(args.inputs, args.recursive)
          /\ stats.files_seen = Len(trail)

C9_Witness ==
    /\ Exited /\ exit = "ret0" /\ Len(trail) = 2
    /\ trail[1].how = "openfail" /\ trail[2].how = "eof"
    /\ stats.files_read = 1

(* C10: count mode. Every file read to its end emits exactly one path:count
   line, after its last line, also when the count is 0; no path:lineno line
   is ever printed; lines_reported grows by 1 per count line, so it always
   equals the number of count lines printed. *)
C10_CountMode ==
    args.count =>
        /\ \A i \in DOMAIN stdout : stdout[i].kind = "count"
        /\ stats.lines_reported = Len(stdout)
        /\ Len(stdout) = TrailCount({"eof"})
        /\ pc = "gf_line" => Len(stdout) = entry.out
        /\ (pc = "gf_ret" /\ cur.how = "eof") =>
              /\ CurOut = <<CountRec(cur.path, cur.match_count)>>
              /\ stats.lines_reported = entry.stats.lines_reported + 1

C10_Witness ==
    /\ args.count /\ pc = "gf_ret" /\ cur.how = "eof"
    /\ Len(cur.content) = 2
    /\ CurOut = <<CountRec(cur.path, 0)>>

=============================================================================
